---------------------------- MODULE Spec2Model ----------------------------
(***************************************************************************)
(* PricePulse (src/avg_crypto_price.py): a poll loop that resolves a coin  *)
(* symbol, then repeatedly fetches a price, pushes it into a bounded       *)
(* window and prints the price with its simple moving average.  Both       *)
(* remote operations run under a tenacity retrier (exponential backoff,    *)
(* retry on requests.RequestException only, before_sleep callback          *)
(* update_retry_info).  A SIGINT handler sets the flag shutdown_requested. *)
(*                                                                         *)
(* The main thread is modelled by its program counter pc; the signal       *)
(* handler is an asynchronous action that may run between any two steps.   *)
(* Prices are exact binary fractions, counted in eighths of a dollar, so   *)
(* that the float sums and quotients of the program are exact rationals    *)
(* here; the timestamp of an observation is not modelled.                  *)
(***************************************************************************)
EXTENDS Integers, Sequences, FiniteSets, TLC

\* ------------------------------------------------------------------ bounds
MaxCap == 2          \* largest configured window capacity (--sma)
MaxPushes == 3       \* successful price fetches in one run
MaxAttempts == 12    \* attempts of one logical call (retry sequence length)
MaxSignals == 2      \* SIGINT deliveries in one run

\* ------------------------------------------------- constants of the source
multiplier == 1      \* wait_exponential(multiplier=1, ...)
wait_min == 1        \* wait_exponential(..., min=1, ...)
wait_max == 900      \* wait_exponential(..., max=900)
log_every == 5       \* current_retry % 5 == 0
exp_base == 2        \* wait_exponential doubles (tenacity's default base)
CentScale == 100     \* ",.2f": the output shows hundredths

\* -------------------------------------------------------------- the inputs
Capacities == (0 - 1) .. MaxCap
\* 67000.50 and 67010.25 dollars, in eighths of a dollar
Prices == {536004, 536082}
ApiSymbols == {"btc"}
ErrorBodies == {"struct", "plain", "text"}

\* no response has been received yet in this logical call
NotYet == [status |-> "", body |-> ""]
NoResponse == [status |-> "none", body |-> "none"]
\* What session.get can produce: no response at all (transport error), a 2xx
\* with the expected fields ("ok") or without them ("missing"), a 404 or
\* another non-2xx whose body is JSON with status.error_message ("struct"),
\* JSON without it ("plain") or not JSON ("text").
ErrorResponses ==
    {NoResponse} \cup [status : {"404", "5xx"}, body : ErrorBodies]
MissingResponse == [status |-> "2xx", body |-> "missing"]
OkResponse == [status |-> "2xx", body |-> "ok"]

VARIABLES
    pc,                 \* position of the main thread
    max_price_storage,  \* --sma
    prices,             \* the deque of main
    shutdown_requested, \* the global flag
    signals,            \* SIGINT deliveries so far ("Shutting down" lines)
    attempt_number,     \* retry_state.attempt_number of the current call
    response,           \* the response session.get returned to this attempt
    fetches,            \* calls of fetch_price made by main
    coin_symbol,        \* main's coin_symbol
    price,              \* main's price
    sma,                \* main's sma, as <<numerator, denominator>>
    line,               \* the last formatted line printed
    nlines,             \* formatted lines printed
    pushed,             \* every price appended to the deque, in order
    calls,              \* session.get calls of the current logical call
    lateCalls,          \* session.get calls started with the flag set
    diag,               \* logging.error lines of update_retry_info, this call
    diagmsg,            \* what the last such line carried
    delay,              \* the last backoff delay slept
    errlogs,            \* logging.error lines of main (line 110)
    raised,             \* the exception that left the retrier, if any
    raisedIn,           \* the operation it left
    exit_status,        \* "running", "0" or "1"
    resolves,           \* calls of get_coin_symbol made by main
    okFetches,          \* calls of fetch_price that returned a price
    retriedBefore,      \* an earlier logical call went through a retry
    latePushes          \* prices pushed with the flag set

vars == <<pc, max_price_storage, prices, shutdown_requested, signals,
          attempt_number, response, fetches, coin_symbol, price, sma, line, nlines,
          pushed, calls, lateCalls, diag, diagmsg, delay, errlogs, raised,
          raisedIn, exit_status, resolves, okFetches, retriedBefore,
          latePushes>>

\* ------------------------------------------------------------ arithmetic
Min(a, b) == IF a < b THEN a ELSE b
Max(a, b) == IF a > b THEN a ELSE b

RECURSIVE SeqSum(_)
SeqSum(s) == IF s = <<>> THEN 0 ELSE Head(s) + SeqSum(Tail(s))

\* sum(prices) / len(prices) if prices else 0
Average(q) == IF Len(q) > 0 THEN <<SeqSum(q), Len(q)>> ELSE <<0, 1>>

\* format(x, ",.2f") of the value num/den eighths of a dollar: the number of
\* cents, rounded to nearest, ties to even (the value is exact in binary).
Format2(num, den) ==
    LET n == num * CentScale
        d == den * 8
        q == n \div d
        r == n % d
    IN  IF 2 * r < d THEN q
        ELSE IF 2 * r > d THEN q + 1
        ELSE IF q % 2 = 0 THEN q ELSE q + 1

\* str.upper() on the symbols the API returns
Upper(s) == CASE s = "btc" -> "BTC" [] OTHER -> s

\* deque(maxlen=n): n < 0 raises ValueError
DequeValid(maxlen) == maxlen >= 0

\* variant: a full deque refuses the new element
DequeAppend_DropNewest(q, x, maxlen) ==
    IF Len(q) >= maxlen THEN q ELSE Append(q, x)
\* variant: a plain list, maxlen ignored
DequeAppend_Unbounded(q, x, maxlen) == Append(q, x)
\* deque.append with maxlen: a full deque drops its oldest element, a deque
\* of maxlen 0 stays empty
DequeAppend(q, x, maxlen) ==
    IF maxlen = 0 THEN q
    ELSE IF Len(q) >= maxlen THEN Append(Tail(q), x)
    ELSE Append(q, x)

\* ------------------------------------------------------------ the retrier
RequestException == {"HTTPError", "ConnectionError"}

\* variant: retry= left out, tenacity then retries on any exception
retry_if_exception_type_Any(exc) == TRUE
\* retry=retry_if_exception_type((requests.RequestException,))
retry_if_exception_type(exc) == exc \in RequestException

\* variant: max= left out
wait_exponential_uncapped(attempt) ==
    Max(wait_min, multiplier * exp_base ^ (attempt - 1))
\* wait=wait_exponential(multiplier=1, min=1, max=900), for the attempt that
\* has just failed
wait_exponential(attempt) ==
    Max(wait_min, Min(multiplier * exp_base ^ (attempt - 1), wait_max))

\* variant: the line comes before the 5th attempt instead of after it
LogDue_Early(attempt) == (attempt + 1) % log_every = 0
\* if current_retry != 0 and current_retry % 5 == 0
LogDue(attempt) == attempt # 0 /\ attempt % log_every = 0

\* current_exception.response.json().get("status", {}).get("error_message",
\* str(current_exception)): what is logged, or the exception it raises
ErrorMessage(body) ==
    CASE body = "none" -> [raises |-> "AttributeError", msg |-> ""]
      [] body = "text" -> [raises |-> "JSONDecodeError", msg |-> ""]
      [] body = "struct" -> [raises |-> "", msg |-> "error_message"]
      [] OTHER -> [raises |-> "", msg |-> "str(exception)"]

\* update_retry_info(retry_state): nothing before a multiple of 5
update_retry_info(attempt, body) ==
    IF LogDue(attempt) THEN ErrorMessage(body)
    ELSE [raises |-> "", msg |-> ""]

\* ------------------------------------------------- the wrapped operations
\* variant: lines 61-62 left out, a 404 reaches raise_for_status
SymbolError_No404(resp) ==
    CASE resp.status = "none" -> "ConnectionError"
      [] resp.status # "2xx" -> "HTTPError"
      [] resp.body = "missing" -> "KeyError"
      [] OTHER -> ""
\* get_coin_symbol after session.get: the exception type raised, "" if none
SymbolError(resp) ==
    CASE resp.status = "none" -> "ConnectionError"
      [] resp.status = "404" -> "Exception"
      [] resp.status # "2xx" -> "HTTPError"
      [] resp.body = "missing" -> "KeyError"
      [] OTHER -> ""

\* variant: a payload without the expected fields raises a request error
PriceError_MissingTransient(resp) ==
    CASE resp.status = "none" -> "ConnectionError"
      [] resp.status # "2xx" -> "HTTPError"
      [] resp.body = "missing" -> "HTTPError"
      [] OTHER -> ""
\* variant: the 404 test of get_coin_symbol copied into fetch_price
PriceError_404Terminal(resp) ==
    CASE resp.status = "none" -> "ConnectionError"
      [] resp.status = "404" -> "Exception"
      [] resp.status # "2xx" -> "HTTPError"
      [] resp.body = "missing" -> "KeyError"
      [] OTHER -> ""
\* fetch_price after session.get: raise_for_status, then the two lookups
PriceError(resp) ==
    CASE resp.status = "none" -> "ConnectionError"
      [] resp.status # "2xx" -> "HTTPError"
      [] resp.body = "missing" -> "KeyError"
      [] OTHER -> ""

\* variant: the pre-call check left out
ShutdownCheck_Skipped(flag) == FALSE
\* if shutdown_requested: raise ShutdownRequested(...)
ShutdownCheck(flag) == flag

\* ------------------------------------------------------------------ Init
Init ==
    /\ pc = "start"
    /\ max_price_storage \in Capacities
    /\ prices = <<>>
    /\ shutdown_requested = FALSE
    /\ signals = 0
    /\ attempt_number = 0
    /\ response = NotYet
    /\ fetches = 0
    /\ coin_symbol = ""
    /\ price = 0
    /\ sma = <<0, 1>>
    /\ line = [count |-> 0, price |-> 0, sma |-> 0, symbol |-> ""]
    /\ nlines = 0
    /\ pushed = <<>>
    /\ calls = 0
    /\ lateCalls = 0
    /\ diag = 0
    /\ diagmsg = ""
    /\ delay = 0
    /\ errlogs = 0
    /\ raised = ""
    /\ raisedIn = ""
    /\ exit_status = "running"
    /\ resolves = 0
    /\ okFetches = 0
    /\ retriedBefore = FALSE
    /\ latePushes = 0

\* ------------------------------------------------------- the signal handler
\* variant: the handler toggles the flag
signal_handler_Toggle ==
    /\ pc # "done"
    /\ signals < MaxSignals
    /\ shutdown_requested' = ~shutdown_requested
    /\ signals' = signals + 1
    /\ UNCHANGED <<pc, max_price_storage, prices, attempt_number, response,
                   fetches, coin_symbol, price, sma, line, nlines, pushed,
                   calls, lateCalls, diag, diagmsg, delay, errlogs, raised,
                   raisedIn, exit_status, resolves, okFetches, retriedBefore,
                   latePushes>>
\* signal_handler(sig, frame): runs between any two steps of the main thread
signal_handler ==
    /\ UNCHANGED <<resolves, okFetches, retriedBefore, latePushes>>
    /\ pc # "done"
    /\ signals < MaxSignals
    /\ shutdown_requested' = TRUE
    /\ signals' = signals + 1
    /\ UNCHANGED <<pc, max_price_storage, prices, attempt_number, response,
                   fetches, coin_symbol, price, sma, line, nlines, pushed,
                   calls, lateCalls, diag, diagmsg, delay, errlogs, raised,
                   raisedIn, exit_status>>

\* ------------------------------------------------------------ the retrier
\* variant: one retry state shared by all calls, the attempt number kept
BeginCall_Stale ==
    /\ attempt_number' = IF attempt_number = 0 THEN 1 ELSE attempt_number
    /\ response' = NotYet
    /\ calls' = 0
    /\ diag' = 0
    /\ diagmsg' = ""
    /\ delay' = 0
    /\ retriedBefore' = (retriedBefore \/ attempt_number > 1)
\* A fresh RetryCallState for a logical call of the wrapped function
BeginCall ==
    /\ attempt_number' = 1
    /\ response' = NotYet
    /\ calls' = 0
    /\ diag' = 0
    /\ diagmsg' = ""
    /\ delay' = 0
    /\ retriedBefore' = (retriedBefore \/ attempt_number > 1)

\* variant: a failed resolution is swallowed and main goes on to the loop
AfterRaise_Continue(op) == IF op = "get_coin_symbol" THEN "loop" ELSE "done"
\* variant: the handler of lines 109-111 without its break
AfterRaise_FallThrough(op) == IF op = "fetch_price" THEN "report" ELSE "done"
\* Where main continues once an exception has left the wrapped call: line
\* 105 has no handler, so main is left; the handler of lines 109-111 breaks
\* out of the loop, and main returns.
AfterRaise(op) == "done"

\* An exception leaves the retrier.  get_coin_symbol is called outside any
\* try (line 105): the exception ends the process with a traceback, status 1.
\* fetch_price is called inside main's try (lines 107-111): main logs
\* str(e), breaks and returns, and the process ends with status 0.
Propagate(op, exc) ==
    /\ raised' = exc
    /\ raisedIn' = op
    /\ pc' = AfterRaise(op)
    /\ IF op = "fetch_price"
       THEN errlogs' = errlogs + 1 /\ exit_status' = "0"
       ELSE errlogs' = errlogs /\ exit_status' = "1"

\* The attempt raised exc (the response is resp; an exception raised before
\* session.get, such as ShutdownRequested, carries none): tenacity's decision.
\* Not a RequestException: re-raised.  Otherwise the wait is computed,
\* before_sleep=update_retry_info runs (and may itself raise), the attempt
\* number is incremented and the retrier sleeps.
Failed(op, exc, resp, sleepPc) ==
    IF ~retry_if_exception_type(exc)
    THEN /\ Propagate(op, exc)
         /\ UNCHANGED <<attempt_number, diag, diagmsg, delay>>
    ELSE LET info == update_retry_info(attempt_number, resp.body)
         IN  IF info.raises # ""
             THEN /\ Propagate(op, info.raises)
                  /\ UNCHANGED <<attempt_number, diag, diagmsg, delay>>
             ELSE /\ attempt_number < MaxAttempts
                  /\ delay' = wait_exponential(attempt_number)
                  /\ diag' = IF info.msg # "" THEN diag + 1 ELSE diag
                  /\ diagmsg' = IF info.msg # "" THEN info.msg ELSE diagmsg
                  /\ attempt_number' = attempt_number + 1
                  /\ pc' = sleepPc
                  /\ UNCHANGED <<raised, raisedIn, errlogs, exit_status>>

\* session.get is issued
Issue(waitPc) ==
    /\ calls' = calls + 1
    /\ lateCalls' = IF shutdown_requested THEN lateCalls + 1 ELSE lateCalls
    /\ pc' = waitPc

\* --------------------------------------------------------------- main
\* main, line 104: prices = deque(maxlen=max_price_storage); line 105 then
\* calls get_coin_symbol
main_start ==
    /\ UNCHANGED <<okFetches, latePushes>>
    /\ pc = "start"
    /\ IF DequeValid(max_price_storage)
       THEN /\ pc' = "sym_check"
            /\ BeginCall
            /\ resolves' = resolves + 1
            /\ UNCHANGED <<raised, raisedIn, errlogs, exit_status>>
       ELSE /\ raised' = "ValueError"
            /\ raisedIn' = "deque"
            /\ pc' = "done"
            /\ exit_status' = "1"
            /\ UNCHANGED <<attempt_number, response, calls, diag, diagmsg,
                           delay, errlogs, resolves, retriedBefore>>
    /\ UNCHANGED <<max_price_storage, prices, shutdown_requested, signals,
                   fetches, coin_symbol, price, sma, line, nlines, pushed,
                   lateCalls>>

\* get_coin_symbol, lines 56-57: the pre-call check of an attempt
get_coin_symbol_check ==
    /\ UNCHANGED <<resolves, okFetches, retriedBefore, latePushes>>
    /\ pc = "sym_check"
    /\ IF ShutdownCheck(shutdown_requested)
       THEN Failed("get_coin_symbol", "ShutdownRequested", NoResponse, "sym_sleep")
       ELSE /\ pc' = "sym_get"
            /\ UNCHANGED <<raised, raisedIn, errlogs, exit_status,
                           attempt_number, diag, diagmsg, delay>>
    /\ UNCHANGED <<max_price_storage, prices, shutdown_requested, signals,
                   response, fetches, coin_symbol, price, sma, line, nlines,
                   pushed, calls, lateCalls>>

\* get_coin_symbol, line 60: session.get(url) starts
get_coin_symbol_get ==
    /\ UNCHANGED <<resolves, okFetches, retriedBefore, latePushes>>
    /\ pc = "sym_get"
    /\ Issue("sym_wait")
    /\ UNCHANGED <<max_price_storage, prices, shutdown_requested, signals,
                   attempt_number, response, fetches, coin_symbol, price, sma,
                   line, nlines, pushed, diag, diagmsg, delay, errlogs,
                   raised, raisedIn, exit_status>>

\* get_coin_symbol, lines 60-65: the call returns and the attempt ends
get_coin_symbol_return ==
    /\ UNCHANGED <<resolves, okFetches, retriedBefore, latePushes>>
    /\ pc = "sym_wait"
    /\ \E resp \in ErrorResponses \cup {MissingResponse} \cup {OkResponse} :
       \E s \in ApiSymbols :
         /\ response' = resp
         /\ IF SymbolError(resp) = ""
            THEN /\ coin_symbol' = Upper(s)
                 /\ pc' = "loop"
                 /\ UNCHANGED <<attempt_number, diag, diagmsg, delay, raised,
                                raisedIn, errlogs, exit_status>>
            ELSE /\ Failed("get_coin_symbol", SymbolError(resp), resp,
                           "sym_sleep")
                 /\ UNCHANGED coin_symbol
    /\ UNCHANGED <<max_price_storage, prices, shutdown_requested, signals,
                   fetches, price, sma, line, nlines, pushed, calls,
                   lateCalls>>

\* the retrier's sleep ends and the wrapped function is called again, with
\* fresh locals: no response yet
retry_wake ==
    /\ UNCHANGED <<resolves, okFetches, retriedBefore, latePushes>>
    /\ pc \in {"sym_sleep", "fp_sleep"}
    /\ pc' = IF pc = "sym_sleep" THEN "sym_check" ELSE "fp_check"
    /\ response' = NotYet
    /\ UNCHANGED <<max_price_storage, prices, shutdown_requested, signals,
                   attempt_number, fetches, coin_symbol, price, sma, line,
                   nlines, pushed, calls, lateCalls, diag, diagmsg, delay,
                   errlogs, raised, raisedIn, exit_status>>

\* main, line 106: while not shutdown_requested; line 108 calls fetch_price
main_loop ==
    /\ UNCHANGED <<resolves, okFetches, latePushes>>
    /\ pc = "loop"
    /\ IF shutdown_requested
       THEN /\ pc' = "done"
            /\ exit_status' = "0"
            /\ UNCHANGED <<attempt_number, response, calls, diag, diagmsg,
                           delay, fetches, retriedBefore>>
       ELSE /\ pc' = "fp_check"
            /\ BeginCall
            /\ fetches' = fetches + 1
            /\ UNCHANGED exit_status
    /\ UNCHANGED <<max_price_storage, prices, shutdown_requested, signals,
                   coin_symbol, price, sma, line, nlines, pushed, lateCalls,
                   errlogs, raised, raisedIn>>

\* fetch_price, lines 78-79: the pre-call check of an attempt
fetch_price_check ==
    /\ UNCHANGED <<resolves, okFetches, retriedBefore, latePushes>>
    /\ pc = "fp_check"
    /\ IF ShutdownCheck(shutdown_requested)
       THEN Failed("fetch_price", "ShutdownRequested", NoResponse, "fp_sleep")
       ELSE /\ pc' = "fp_get"
            /\ UNCHANGED <<raised, raisedIn, errlogs, exit_status,
                           attempt_number, diag, diagmsg, delay>>
    /\ UNCHANGED <<max_price_storage, prices, shutdown_requested, signals,
                   response, fetches, coin_symbol, price, sma, line, nlines,
                   pushed, calls, lateCalls>>

\* fetch_price, line 86: session.get(url, params=params) starts
fetch_price_get ==
    /\ UNCHANGED <<resolves, okFetches, retriedBefore, latePushes>>
    /\ pc = "fp_get"
    /\ Issue("fp_wait")
    /\ UNCHANGED <<max_price_storage, prices, shutdown_requested, signals,
                   attempt_number, response, fetches, coin_symbol, price, sma,
                   line, nlines, pushed, diag, diagmsg, delay, errlogs,
                   raised, raisedIn, exit_status>>

\* fetch_price, lines 86-93, and main's assignment of line 108
fetch_price_return ==
    /\ UNCHANGED <<resolves, retriedBefore, latePushes>>
    /\ pc = "fp_wait"
    /\ \E resp \in ErrorResponses \cup {MissingResponse} \cup {OkResponse} :
       \E p \in Prices :
         /\ response' = resp
         /\ IF PriceError(resp) = ""
            THEN /\ Len(pushed) < MaxPushes
                 /\ price' = p
                 /\ okFetches' = okFetches + 1
                 /\ pc' = "report"
                 /\ UNCHANGED <<attempt_number, diag, diagmsg, delay, raised,
                                raisedIn, errlogs, exit_status>>
            ELSE /\ Failed("fetch_price", PriceError(resp), resp, "fp_sleep")
                 /\ UNCHANGED <<price, okFetches>>
    /\ UNCHANGED <<max_price_storage, prices, shutdown_requested, signals,
                   fetches, coin_symbol, sma, line, nlines, pushed, calls,
                   lateCalls>>

\* main, lines 112-114: append, average, print
main_report ==
    /\ pc = "report"
    /\ LET q == DequeAppend(prices, price, max_price_storage)
           avg == Average(q)
       IN  /\ prices' = q
           /\ sma' = avg
           /\ line' = [count |-> Len(q), price |-> Format2(price, 1),
                       sma |-> Format2(avg[1], avg[2]),
                       symbol |-> coin_symbol]
    /\ pushed' = Append(pushed, price)
    /\ nlines' = nlines + 1
    /\ latePushes' = IF shutdown_requested THEN latePushes + 1 ELSE latePushes
    /\ pc' = "sleep"
    /\ UNCHANGED <<resolves, okFetches, retriedBefore>>
    /\ UNCHANGED <<max_price_storage, shutdown_requested, signals,
                   attempt_number, response, fetches, coin_symbol, price,
                   calls, lateCalls, diag, diagmsg, delay, errlogs, raised,
                   raisedIn, exit_status>>

\* main, line 115: time.sleep(1) ends
main_sleep ==
    /\ UNCHANGED <<resolves, okFetches, retriedBefore, latePushes>>
    /\ pc = "sleep"
    /\ pc' = "loop"
    /\ UNCHANGED <<max_price_storage, prices, shutdown_requested, signals,
                   attempt_number, response, fetches, coin_symbol, price, sma,
                   line, nlines, pushed, calls, lateCalls, diag, diagmsg,
                   delay, errlogs, raised, raisedIn, exit_status>>

Next ==
    \/ signal_handler
    \/ main_start
    \/ get_coin_symbol_check
    \/ get_coin_symbol_get
    \/ get_coin_symbol_return
    \/ retry_wake
    \/ main_loop
    \/ fetch_price_check
    \/ fetch_price_get
    \/ fetch_price_return
    \/ main_report
    \/ main_sleep

Spec == Init /\ [][Next]_vars

\* A step of the main thread.  The thread is never blocked for ever: the
\* interpreter keeps running it, and every session.get and every sleep is
\* taken to return.
MainStep ==
    \/ main_start
    \/ get_coin_symbol_check
    \/ get_coin_symbol_get
    \/ get_coin_symbol_return
    \/ retry_wake
    \/ main_loop
    \/ fetch_price_check
    \/ fetch_price_get
    \/ fetch_price_return
    \/ main_report
    \/ main_sleep

FairSpec == Init /\ [][Next]_vars /\ WF_vars(MainStep)

\* ------------------------------------------------------------ the states
\* The poll loop's state (spec 4.5), read off the program counter
State ==
    CASE pc \in {"start", "sym_check", "sym_get", "sym_wait", "sym_sleep"}
           -> "Starting"
      [] pc = "done" -> "Stopped"
      [] OTHER -> "Polling"

TypeOK ==
    /\ pc \in {"start", "sym_check", "sym_get", "sym_wait", "sym_sleep",
               "loop", "fp_check", "fp_get", "fp_wait", "fp_sleep", "report",
               "sleep", "done"}
    /\ max_price_storage \in Capacities
    /\ shutdown_requested \in BOOLEAN
    /\ attempt_number \in 0 .. MaxAttempts
    /\ Len(pushed) <= MaxPushes
    /\ exit_status \in {"running", "0", "1"}

\* ================================================================ claims
Terminal == {"Exception", "ShutdownRequested", "KeyError"}
Checks == {"sym_check", "fp_check"}
Gets == {"sym_get", "fp_get"}
\* the last k prices pushed
LastPushed(k) == SubSeq(pushed, Len(pushed) - k + 1, Len(pushed))
Occupancy == Min(Len(pushed), max_price_storage)

\* C1 (as stated): with capacity C >= 1, after the n-th push the line shows
\* the count min(n, C) and, as its average, the arithmetic mean of the last
\* min(n, C) pushed prices (67005.375 after 67000.50 and 67010.25 with C = 2).
\* The shown average is in cents, the prices in eighths of a dollar.
C1_Original ==
    (max_price_storage >= 1 /\ nlines > 0) =>
        /\ line.count = Occupancy
        /\ line.sma * 8 * Occupancy = CentScale * SeqSum(LastPushed(Occupancy))

\* C1 (amended): with capacity C >= 1, after the n-th push the count shown
\* is min(n, C), the SMA computed is the arithmetic mean of the last
\* min(n, C) pushed prices, and the line shows that mean rounded to two
\* decimals; with C = 1 the SMA is the latest price; with C = 2 and prices
\* 67000.50 then 67010.25 the lines show count 1 / 67,000.50 and count 2 /
\* 67,005.38 (the SMA being 67005.375).
C1_Amended ==
    (max_price_storage >= 1 /\ nlines > 0) =>
        /\ nlines = Len(pushed)
        /\ line.count = Occupancy
        /\ sma[1] * Occupancy = SeqSum(LastPushed(Occupancy)) * sma[2]
        /\ line.sma = Format2(SeqSum(LastPushed(Occupancy)), Occupancy)
        /\ (max_price_storage = 1 =>
                sma[1] = pushed[Len(pushed)] * sma[2])
        /\ (max_price_storage = 2 /\ pushed = <<536004>> =>
                line.count = 1 /\ line.sma = 6700050)
        /\ (max_price_storage = 2 /\ pushed = <<536004, 536082>> =>
                /\ line.count = 2
                /\ sma[1] * 1000 = 67005375 * 8 * sma[2]
                /\ line.sma = 6700538)

\* C1 witness: capacity 2, a third push has evicted a different oldest price
C1_Witness ==
    /\ max_price_storage = 2
    /\ nlines = 3
    /\ pushed = <<536004, 536082, 536082>>
    /\ prices = <<536082, 536082>>

\* C2 (as stated): once shutdown has been requested no remote call is
\* initiated, for every interleaving of the handler with the main thread.
C2_Original == lateCalls = 0

\* C2 (amended): once shutdown has been requested, every pre-call check and
\* every loop check made afterwards stops the operation, so no later loop
\* iteration or retry attempt initiates a call; the one exception is a call
\* whose pre-call check had already passed when the handler ran, and at most
\* one call in total is initiated after the request.
C2_Amended ==
    [][/\ (shutdown_requested /\ pc \in Checks => pc' \notin Gets)
       /\ (shutdown_requested /\ pc = "loop" => pc' \in {"loop", "done"})
       /\ (shutdown_requested /\ calls' # calls =>
              pc \in Gets /\ lateCalls = 0 /\ lateCalls' = 1)]_vars

\* C2 witness: a retry attempt was stopped at its pre-call check
C2_Witness ==
    /\ shutdown_requested
    /\ pc = "done"
    /\ raised = "ShutdownRequested"
    /\ raisedIn = "fetch_price"
    /\ attempt_number = 3
    /\ calls = 2
    /\ lateCalls = 0

\* C3 (as stated): no retryable failure, and no error raised by the retry
\* machinery itself (update_retry_info included), ever leaves the retrier:
\* what leaves it is a terminal failure or the shutdown error.
C3_Claim ==
    raisedIn \in {"get_coin_symbol", "fetch_price"} => raised \in Terminal

\* C4: the backoff delay slept after the k-th consecutive retryable failure
\* of a logical call is min(900, 2^(k-1)) seconds, at least 1 and at most 900.
C4_BackoffDelay ==
    pc \in {"sym_sleep", "fp_sleep"} =>
        /\ calls >= 1
        /\ delay = (IF calls <= 10 THEN 2 ^ (calls - 1) ELSE 900)
        /\ delay >= 1
        /\ delay <= 900

\* C4 witness: the sleep after the 11th failure, the first one capped
C4_Witness == pc = "fp_sleep" /\ calls = 11 /\ delay = 900

\* C5: a 404 received by get_coin_symbol, on any attempt, propagates to the
\* caller as a plain Exception, and no further remote call follows.
C5_NotFoundNotRetried ==
    /\ [](fetches = 0 /\ response.status = "404" =>
             /\ pc = "done"
             /\ raised = "Exception"
             /\ raisedIn = "get_coin_symbol")
    /\ [][fetches = 0 /\ response.status = "404" => calls' = calls]_vars

\* C5 witness: the 404 came on the third attempt
C5_Witness ==
    /\ fetches = 0
    /\ response.status = "404"
    /\ calls = 3
    /\ attempt_number = 3
    /\ pc = "done"

\* The 5th attempt of a price fetch succeeded and its line was printed
FifthAttemptReported ==
    /\ pc = "sleep"
    /\ attempt_number = 5
    /\ calls = 5
    /\ response = OkResponse

\* C6 (as stated): a price fetch that fails on attempts 1 to 4 and succeeds
\* on attempt 5 emits exactly one diagnostic line, and the value of the 5th
\* attempt is the one pushed and reported.
C6_Original ==
    FifthAttemptReported =>
        /\ diag = 1
        /\ pushed[Len(pushed)] = price
        /\ line.price = Format2(price, 1)

\* C6 (amended): such a fetch emits no diagnostic line (the callback sees
\* attempt numbers 1 to 4 only), and the value of the 5th attempt is the one
\* pushed and reported.
C6_Amended ==
    FifthAttemptReported =>
        /\ diag = 0
        /\ diagmsg = ""
        /\ nlines = Len(pushed)
        /\ pushed[Len(pushed)] = price
        /\ line.price = Format2(price, 1)

\* C6 witness: the scenario itself
C6_Witness == FifthAttemptReported /\ diag = 0 /\ price = 536082

\* C7 (as stated): every terminal error, in symbol resolution or in a price
\* fetch, is logged by the poll loop exactly once and ends the process with
\* a non-zero exit status.
C7_Claim ==
    (pc = "done" /\ raised \in Terminal) =>
        errlogs = 1 /\ exit_status = "1"

\* C8: a terminal failure of symbol resolution (404, or shutdown seen at the
\* pre-call check) takes the process from Starting to Stopped: fetch_price
\* is never called, nothing is pushed, no line is printed.
C8_NoPollingAfterFailedResolution ==
    (raisedIn = "get_coin_symbol" /\ raised \in {"Exception",
                                                   "ShutdownRequested"}) =>
        /\ State = "Stopped"
        /\ fetches = 0
        /\ pushed = <<>>
        /\ prices = <<>>
        /\ nlines = 0
        /\ coin_symbol = ""

\* C8 witness: shutdown seen at the pre-call check of the first attempt
C8_Witness ==
    /\ raisedIn = "get_coin_symbol"
    /\ raised = "ShutdownRequested"
    /\ attempt_number = 1
    /\ calls = 0
    /\ pc = "done"

\* C9: once the window exists it never holds more prices than its capacity,
\* and an SMA computed over an empty window is reported as 0.
C9_WindowBounded ==
    /\ (pc # "start" /\ DequeValid(max_price_storage) =>
            Len(prices) <= max_price_storage)
    /\ (nlines > 0 /\ prices = <<>> =>
            sma = <<0, 1>> /\ line.sma = 0 /\ line.count = 0)

\* C9 witness: capacity 0, two lines printed over an empty window
C9_Witness ==
    /\ max_price_storage = 0
    /\ nlines = 2
    /\ prices = <<>>
    /\ line.sma = 0

\* C10 (as stated): with a capacity <= 0 the window's construction fails, no
\* remote call is issued, Polling is never entered and no line is printed.
C10_Claim ==
    max_price_storage <= 0 =>
        /\ pc \in {"start", "done"}
        /\ calls = 0
        /\ State # "Polling"
        /\ nlines = 0

Sleeps == {"sym_sleep", "fp_sleep"}
Waits == {"sym_wait", "fp_wait"}
\* errors update_retry_info itself raises (see C3)
CallbackErrors == {"AttributeError", "JSONDecodeError"}
\* the retrier took the failure of this step as retryable: it went on to its
\* callback and, unless the callback raised, to the backoff sleep
TakenAsRetryable ==
    \/ pc' \in Sleeps /\ attempt_number' = attempt_number + 1
    \/ /\ LogDue(attempt_number)
       /\ pc' = "done"
       /\ raised' \in CallbackErrors

\* C11 (as stated): a 2xx price response without the expected fields is a
\* transient failure of fetch_price: it is retried and does not end the poll
\* loop.
C11_Original ==
    (fetches >= 1 /\ response = MissingResponse) =>
        pc \in Sleeps \cup {"fp_check", "fp_get", "fp_wait"}

\* C11 (amended): a 2xx price response without the expected fields is a
\* terminal failure of fetch_price: the KeyError is not retried (no backoff,
\* no further call), main logs it once and the poll loop ends.
C11_Amended ==
    /\ [](fetches >= 1 /\ response = MissingResponse =>
             /\ pc = "done"
             /\ raised = "KeyError"
             /\ raisedIn = "fetch_price"
             /\ errlogs = 1)
    /\ [][pc = "fp_wait" /\ response' = MissingResponse
             => (pc' = "done" /\ attempt_number' = attempt_number
                 /\ delay' = delay /\ prices' = prices
                 /\ pushed' = pushed /\ nlines' = nlines)]_vars

\* C11 witness: the malformed payload came on the second attempt of the
\* second polling cycle
C11_Witness ==
    /\ fetches = 2
    /\ response = MissingResponse
    /\ attempt_number = 2
    /\ pc = "done"
    /\ nlines = 1

\* C12 (as stated): for both wrapped operations a 404 response is terminal
\* and never retried.
C12_Original ==
    response.status = "404" => pc = "done" /\ raised = "Exception"

\* C12 (amended): the retrier's predicate is the same for both operations
\* (retry on a request error only), but a 404 is terminal only in
\* get_coin_symbol; in fetch_price a 404 is a request error like every other
\* non-2xx response and is taken as retryable.  Transport errors and the
\* other non-2xx responses are taken as retryable in both.
C12_Amended ==
    [][(pc \in Waits /\ pc' # pc /\ response'.status \in {"none", "5xx"}
           => TakenAsRetryable)
       /\ (pc = "fp_wait" /\ pc' # pc /\ response'.status = "404"
           => TakenAsRetryable)
       /\ (pc = "sym_wait" /\ pc' # pc /\ response'.status = "404"
           => (pc' = "done" /\ raised' = "Exception"
               /\ attempt_number' = attempt_number))]_vars

\* C12 witness: fetch_price sleeps after a 404
C12_Witness ==
    /\ pc = "fp_sleep"
    /\ response.status = "404"
    /\ attempt_number = 2
    /\ delay = 1

\* C13: after shutdown is requested, in any state, the poll loop eventually
\* reaches Stopped (every remote call and every sleep returning); a pre-call
\* check that sees the flag raises the shutdown error, which the retrier
\* does not retry.
C13_ShutdownStops ==
    /\ shutdown_requested ~> (pc = "done")
    /\ [][shutdown_requested /\ pc \in Checks /\ pc' # pc
             => (pc' = "done" /\ raised' = "ShutdownRequested"
                 /\ attempt_number' = attempt_number)]_vars

\* C13 witness: shutdown was requested in the Starting state during a
\* retry sequence, and the process stopped at the next pre-call check
C13_Witness ==
    /\ pc = "done"
    /\ shutdown_requested
    /\ raised = "ShutdownRequested"
    /\ raisedIn = "get_coin_symbol"
    /\ attempt_number = 4
    /\ calls = 3
    /\ delay = 4

\* C14 (as stated): in a retry sequence the flag is checked before each
\* backoff sleep and after it: with shutdown already requested when a
\* retryable failure is returned no backoff sleep starts, and no remote call
\* follows a sleep during which shutdown was requested.
C14_Claim ==
    [][(shutdown_requested /\ pc \in Waits => pc' \notin Sleeps)
       /\ (shutdown_requested /\ pc \in Sleeps => pc' \in Sleeps \cup Checks)
       /\ (shutdown_requested /\ pc \in Checks => pc' \notin Gets)]_vars

Allowed ==
    {<<"Starting", "Starting">>, <<"Starting", "Polling">>,
     <<"Starting", "Stopped">>, <<"Polling", "Polling">>,
     <<"Polling", "Stopped">>, <<"Stopped", "Stopped">>}

\* C15: the poll loop moves only Starting -> Polling (after a successful
\* resolution), Starting -> Stopped, Polling -> Polling, Polling -> Stopped;
\* nothing happens after Stopped; the symbol is resolved by exactly one
\* logical call, finished before the first price fetch, and never changes.
C15_StateMachine ==
    /\ [][/\ <<State, State'>> \in Allowed
          /\ (State = "Starting" /\ State' = "Polling"
                => (pc = "sym_wait" /\ response' = OkResponse
                    /\ coin_symbol' = "BTC"))
          /\ (State = "Stopped"
                => (calls' = calls /\ pushed' = pushed /\ nlines' = nlines))
          /\ (State = "Polling"
                => (coin_symbol' = coin_symbol /\ resolves' = resolves))]_vars
    /\ [](resolves <= 1)
    /\ [](State = "Polling" \/ fetches > 0 =>
             resolves = 1 /\ coin_symbol = "BTC")
    /\ [](nlines > 0 => line.symbol = "BTC")

\* C15 witness: resolved once, two lines printed, then stopped
C15_Witness ==
    /\ State = "Stopped"
    /\ resolves = 1
    /\ coin_symbol = "BTC"
    /\ nlines = 2
    /\ fetches = 3
    /\ exit_status = "0"

\* C16 (as stated): in a retry sequence k consecutive failures have produced
\* floor(k/5) diagnostic lines, one after each failed attempt whose number
\* is a multiple of 5, carrying the structured body's message when there is
\* one and the error's own text otherwise.
C16_Claim ==
    (pc \in Sleeps \/ (pc = "done" /\ raised \in CallbackErrors)) =>
        /\ diag = calls \div log_every
        /\ (calls > 0 /\ calls % log_every = 0 =>
               diagmsg = (IF response.body = "struct" THEN "error_message"
                          ELSE "str(exception)"))

\* C17: the lines printed, the pushes and the price fetches that returned
\* are equal in number (a returned price is pushed and printed in the next
\* step of the cycle); a cycle whose fetch ends in an error or in shutdown
\* leaves the window as it was and prints nothing.
C17_OneLinePerFetch ==
    /\ [](/\ nlines = Len(pushed)
          /\ okFetches = nlines + (IF pc = "report" THEN 1 ELSE 0)
          /\ (raisedIn = "fetch_price" => pc = "done" /\ okFetches = nlines))
    /\ [][raised' # raised
             => (prices' = prices /\ pushed' = pushed /\ nlines' = nlines
                 /\ line' = line /\ pc' = "done")]_vars

\* C17 witness: two cycles printed, the third ended in a terminal error
C17_Witness ==
    /\ pc = "done"
    /\ raisedIn = "fetch_price"
    /\ raised = "KeyError"
    /\ fetches = 3
    /\ okFetches = 2
    /\ nlines = 2

\* C18: every logical call (the symbol resolution, each cycle's price fetch)
\* starts with attempt number 1, so its first backoff delay is 1 second,
\* whatever earlier logical calls went through.
C18_FreshRetryState ==
    /\ [][(pc \in {"start", "loop"} /\ pc' \in Checks)
             => (attempt_number' = 1)]_vars
    /\ [](pc \in Checks \cup Gets /\ calls = 0 => attempt_number = 1)
    /\ [](pc \in Sleeps /\ calls = 1 => delay = 1 /\ attempt_number = 2)

\* C18 witness: the first backoff of a price fetch, after an earlier logical
\* call that had retried
C18_Witness ==
    /\ retriedBefore
    /\ pc = "fp_sleep"
    /\ fetches = 2
    /\ calls = 1
    /\ delay = 1

\* C19: the flag starts false, is written by the signal handler only, stays
\* true under repeated requests and is never reset.
C19_FlagMonotonic ==
    /\ [](shutdown_requested <=> signals > 0)
    /\ [][shutdown_requested => (shutdown_requested')]_vars
    /\ [][shutdown_requested' # shutdown_requested
             => (signals' = signals + 1 /\ pc' = pc)]_vars
    /\ [][signals' # signals => (shutdown_requested')]_vars

\* C19 witness: a second request arrived while the flag was already set
C19_Witness ==
    /\ signals = 2
    /\ shutdown_requested
    /\ pc = "fp_wait"

\* C20: when the handler runs between a pre-call check and the session.get
\* after it, that call is the only one initiated with the flag set, and at
\* most one more price is pushed and reported before the loop stops.
C20_OneLateCall ==
    /\ lateCalls <= 1
    /\ latePushes <= 1
    /\ (lateCalls = 1 /\ latePushes = 1 => pc \in {"sleep", "loop", "done"})

\* C20 witness: the late call returned a price, it was reported, and the
\* loop stopped
C20_Witness ==
    /\ lateCalls = 1
    /\ latePushes = 1
    /\ pc = "done"
    /\ raised = ""

=============================================================================
